---- MODULE Spec2Model ----
(***************************************************************************)
(* KMZ-Generator (src/app.py): geotagged photos -> KMZ archive.            *)
(*                                                                         *)
(* Two specifications over one set of variables:                           *)
(*   SpecGps  applies get_gps_metadata to one EXIF tag block drawn from a  *)
(*            bounded product of tag values (the pure extraction code);    *)
(*   Spec     runs the "Generate KMZ" handler on a batch of uploaded files *)
(*            (download, upload writes, create_kmz_with_fan_overlay, the   *)
(*            download button, the temporary directory's release).         *)
(*                                                                         *)
(* Data representation.  File names and paths are sequences of one-letter  *)
(* strings, so that lower(), endswith(), replace() and basename() are      *)
(* computed, not assumed.  Python values are tagged records (field t).     *)
(* Floats are exact rationals [num, den] with den > 0, plus a NaN value;   *)
(* rounding is not modelled, sign and zero-ness are.                       *)
(***************************************************************************)
EXTENDS Integers, Sequences, FiniteSets, TLC

VARIABLES
    pc,           \* position of the handler / of create_kmz_with_fan_overlay
    uploaded,     \* uploaded_files: function file name -> file content
    outName,      \* output_kmz_name, the text input
    fs,           \* the scratch directory: function path -> file content
    image_paths,  \* the candidate list built from os.listdir, in listing order
    idx,          \* index of the next candidate of the for loop
    has_data,     \* create_kmz_with_fan_overlay's flag
    kml,          \* the simplekml document: [points, overlays]
    kmz_images,   \* list of (entry name, path) pairs
    archive,      \* the file at output_kmz: [t |-> "none"] or its entries
    result,       \* how the handler ended
    extracted,    \* history: what get_gps_metadata returned, per candidate
    served,       \* the bytes handed to the download button
    gpsTags,      \* SpecGps: the tag block given to get_gps_metadata
    gpsResult     \* SpecGps: what get_gps_metadata returned

vars == <<pc, uploaded, outName, fs, image_paths, idx, has_data, kml,
          kmz_images, archive, result, extracted, served, gpsTags, gpsResult>>

batchVars == <<pc, uploaded, outName, fs, image_paths, idx, has_data, kml,
               kmz_images, archive, result, extracted, served>>

-----------------------------------------------------------------------------
(* Bounds of the model. *)

\* most files in one upload
MaxUploads == 2
\* largest numerator of a generated DMS component
MaxNum == 1
\* largest denominator of a generated rational DMS component
MaxDen == 2

-----------------------------------------------------------------------------
(* Strings: str.lower, str.endswith, str.replace, os.path.join / basename. *)

UpperLetters == <<"A","B","C","D","E","F","G","H","I","J","K","L","M",
                  "N","O","P","Q","R","S","T","U","V","W","X","Y","Z">>
LowerLetters == <<"a","b","c","d","e","f","g","h","i","j","k","l","m",
                  "n","o","p","q","r","s","t","u","v","w","x","y","z">>

LowerChar(c) ==
    IF \E i \in 1..Len(UpperLetters) : UpperLetters[i] = c
    THEN LowerLetters[CHOOSE i \in 1..Len(UpperLetters) : UpperLetters[i] = c]
    ELSE c

Lower(s) == [i \in 1..Len(s) |-> LowerChar(s[i])]

StartsWithAt(s, i, sub) ==
    /\ i + Len(sub) - 1 <= Len(s)
    /\ \A j \in 1..Len(sub) : s[i + j - 1] = sub[j]

EndsWith(s, suf) ==
    /\ Len(suf) <= Len(s)
    /\ StartsWithAt(s, Len(s) - Len(suf) + 1, suf)

Contains(s, sub) == \E i \in 1..Len(s) : StartsWithAt(s, i, sub)

\* s.replace(old, new): every non-overlapping occurrence, leftmost first.
RECURSIVE ReplaceFrom(_, _, _, _)
ReplaceFrom(s, i, old, new) ==
    IF i > Len(s) THEN <<>>
    ELSE IF StartsWithAt(s, i, old)
         THEN new \o ReplaceFrom(s, i + Len(old), old, new)
         ELSE <<s[i]>> \o ReplaceFrom(s, i + 1, old, new)

Replace(s, old, new) == ReplaceFrom(s, 1, old, new)

Slash == "/"

Join(folder, f) == folder \o <<Slash>> \o f

RECURSIVE LastSlash(_, _)
LastSlash(p, i) ==
    IF i = 0 THEN 0
    ELSE IF p[i] = Slash THEN i ELSE LastSlash(p, i - 1)

Basename(p) == SubSeq(p, LastSlash(p, Len(p)) + 1, Len(p))

DotJpg       == <<".","j","p","g">>
DotJpeg      == <<".","j","p","e","g">>
DotPng       == <<".","p","n","g">>
AnnotatedJpg == <<"_","a","n","n","o","t","a","t","e","d",".","j","p","g">>
FanPng       == <<"F","a","n",".","p","n","g">>
DocKml       == <<"d","o","c",".","k","m","l">>

-----------------------------------------------------------------------------
(* Python values. *)

None    == [t |-> "None"]
Absent  == [t |-> "absent"]
NaN     == [t |-> "nan"]
Raised  == [t |-> "raised"]

Rat(n, d) == [t |-> "float", num |-> n, den |-> d]

IsNum(v) == v.t = "float"

Neg(v) == IF IsNum(v) THEN Rat(0 - v.num, v.den) ELSE v

-----------------------------------------------------------------------------
(* EXIF tag values.                                                        *)
(*   a DMS component: [t |-> "num", n]      a plain int or float           *)
(*                    [t |-> "frac", n, d]  a fractions.Fraction (d > 0)   *)
(*                    [t |-> "ifd", n, d]   a numbers.Rational (d >= 0)    *)
(*                       whose float() is numerator / denominator, as a    *)
(*                       PIL IFDRational that inherits __float__           *)
(*                    [t |-> "ifdnan", n]   a PIL IFDRational n/0 of a     *)
(*                       Pillow whose __float__ gives its stored nan       *)
(*                    [t |-> "bad"]         anything float() rejects       *)
(*   a coordinate:    Absent | [t |-> "scalar"] | [t |-> "seq", v |-> <<..>>] *)
(*   a reference:     Absent | [t |-> "str", s |-> "N"]                    *)
(*   an altitude:     Absent | [t |-> "tuple", n, d] | [t |-> "other"]     *)
(*   a direction:     Absent | [t |-> "tuple", n, d] | [t |-> "num", n]    *)
(*                    | [t |-> "str"]                                      *)

Num(n)     == [t |-> "num", n |-> n]
Frac(n, d) == [t |-> "frac", n |-> n, d |-> d]
Ifd(n, d)  == [t |-> "ifd", n |-> n, d |-> d]
IfdNan(n)  == [t |-> "ifdnan", n |-> n]
Bad        == [t |-> "bad"]
Scalar     == [t |-> "scalar"]
SeqOf(v)   == [t |-> "seq", v |-> v]
Str(s)     == [t |-> "str", s |-> s]
Tuple(n, d) == [t |-> "tuple", n |-> n, d |-> d]
Other      == [t |-> "other"]

\* float(x) for a component that is not a fractions.Fraction.  A Rational
\* divides numerator by denominator (ZeroDivisionError on n/0) unless its
\* class gives n/0 a __float__ of its own (nan); a non-number raises.
FloatOf(c) ==
    CASE c.t = "num"    -> Rat(c.n, 1)
      [] c.t = "ifd"    -> IF c.d = 0 THEN Raised ELSE Rat(c.n, c.d)
      [] c.t = "ifdnan" -> NaN
      [] OTHER          -> Raised

\* one of lines 50-52: the isinstance(value[i], IFDRational) branch, where
\* IFDRational is the alias of fractions.Fraction imported on line 8.
ComponentFloat(c) ==
    IF c.t = "frac" THEN Rat(c.n, c.d) ELSE FloatOf(c)

\* d + (m / 60.0) + (s / 3600.0)
DmsSum(d, m, s) ==
    IF d.t = "nan" \/ m.t = "nan" \/ s.t = "nan" THEN NaN
    ELSE Rat(d.num * m.den * s.den * 3600 + m.num * d.den * s.den * 60
                 + s.num * d.den * m.den,
             3600 * d.den * m.den * s.den)

convert_to_degrees(value) ==
    IF value.t = "seq"
    THEN IF Len(value.v) < 3 THEN None            \* IndexError, caught
         ELSE LET d == ComponentFloat(value.v[1])
                  m == ComponentFloat(value.v[2])
                  s == ComponentFloat(value.v[3])
              IN  IF d = Raised \/ m = Raised \/ s = Raised
                  THEN None                       \* caught, warning shown
                  ELSE DmsSum(d, m, s)
    ELSE None

\* gps_info.get(key, default) for a reference tag
RefOf(ref, default) == IF ref = Absent THEN default ELSE ref.s

LatNegated_never(gps_info) == FALSE

LatNegated(gps_info) == RefOf(gps_info.GPSLatitudeRef, "N") = "S"

LonNegated(gps_info) == RefOf(gps_info.GPSLongitudeRef, "E") = "W"

\* -x: TypeError on None
Negate(v) == IF v = None THEN Raised ELSE Neg(v)

\* lines 87-88
Elevation(gps_info) ==
    LET e == IF gps_info.GPSAltitude = Absent THEN Tuple(0, 1)
             ELSE gps_info.GPSAltitude
    IN  IF e.t = "tuple"
        THEN IF e.d = 0 THEN Raised ELSE Rat(e.n, e.d)
        ELSE Rat(0, 1)

\* lines 90-91
Orientation(gps_info) ==
    LET o == IF gps_info.GPSImgDirection = Absent THEN Num(0)
             ELSE gps_info.GPSImgDirection
    IN  IF o.t = "tuple"
        THEN IF o.d = 0 THEN Raised ELSE Rat(o.n, o.d)
        ELSE o

NoGpsInfo(gps_info) ==
    /\ gps_info.GPSLatitude = Absent
    /\ gps_info.GPSLatitudeRef = Absent
    /\ gps_info.GPSLongitude = Absent
    /\ gps_info.GPSLongitudeRef = Absent
    /\ gps_info.GPSAltitude = Absent
    /\ gps_info.GPSImgDirection = Absent
    /\ ~gps_info.other

\* lines 79-99, inside the try
GpsRecord(gps_info) ==
    IF gps_info.GPSLatitude # Absent /\ gps_info.GPSLongitude # Absent
    THEN LET lat0 == convert_to_degrees(gps_info.GPSLatitude)
             lon0 == convert_to_degrees(gps_info.GPSLongitude)
             lat  == IF LatNegated(gps_info) THEN Negate(lat0) ELSE lat0
             lon  == IF LonNegated(gps_info) THEN Negate(lon0) ELSE lon0
             elevation   == Elevation(gps_info)
             orientation == Orientation(gps_info)
         IN  IF lat = Raised \/ lon = Raised \/ elevation = Raised
                \/ orientation = Raised
             THEN None                            \* except Exception
             ELSE [t |-> "meta", latitude |-> lat, longitude |-> lon,
                   elevation |-> elevation, orientation |-> orientation]
    ELSE None

\* exif: [t |-> "unreadable"] (Image.open or _getexif raises),
\*       [t |-> "noexif"]     (_getexif() is None or empty),
\*       [t |-> "exif", gps |-> gps_info]
get_gps_metadata(exif) ==
    CASE exif.t = "unreadable" -> None
      [] exif.t = "noexif"     -> None
      [] OTHER -> IF NoGpsInfo(exif.gps) THEN None ELSE GpsRecord(exif.gps)

-----------------------------------------------------------------------------
(* The tag blocks SpecGps draws from. *)

Components ==
    {Num(n) : n \in 0..MaxNum}
      \cup {Frac(n, d) : n \in 0..MaxNum, d \in 1..MaxDen}
      \cup {Ifd(n, d) : n \in 0..MaxNum, d \in 0..MaxDen}
      \cup {IfdNan(n) : n \in 0..MaxNum}
      \cup {Bad}

RichCoords ==
    {Scalar, SeqOf(<<Num(1), Num(0)>>)}
      \cup {SeqOf(<<a, b, c>>) : a \in Components, b \in Components,
                                 c \in Components}

PlainCoords == {SeqOf(<<Num(40), Num(26), Num(46)>>),
                SeqOf(<<Num(0), Bad, Num(0)>>)}

LatRefs == {Absent, Str("N"), Str("S")}
LonRefs == {Absent, Str("E"), Str("W")}

Altitudes  == {Absent, Tuple(5, 1), Tuple(5, 0), Other}
Directions == {Absent, Tuple(90, 1), Tuple(1, 0), Num(90), Str("north")}

GpsInfo(lat, latRef, lon, lonRef, alt, dir, other) ==
    [GPSLatitude |-> lat, GPSLatitudeRef |-> latRef,
     GPSLongitude |-> lon, GPSLongitudeRef |-> lonRef,
     GPSAltitude |-> alt, GPSImgDirection |-> dir, other |-> other]

Exif(gps_info) == [t |-> "exif", gps |-> gps_info]
NoExif     == [t |-> "noexif"]
Unreadable == [t |-> "unreadable"]

\* the tag blocks, as a predicate on the block x
GpsInputs(x) ==
    \/ x \in {NoExif, Unreadable,
              Exif(GpsInfo(Absent, Absent, Absent, Absent, Absent, Absent, FALSE)),
              Exif(GpsInfo(Absent, Absent, Absent, Absent, Absent, Absent, TRUE))}
    \/ \E lat \in RichCoords, r \in LatRefs, lon \in PlainCoords :
          x = Exif(GpsInfo(lat, r, lon, Str("W"), Absent, Absent, FALSE))
    \/ \E lat \in PlainCoords, r \in LonRefs, lon \in RichCoords :
          x = Exif(GpsInfo(lat, Str("S"), lon, r, Absent, Absent, FALSE))
    \/ \E lat \in PlainCoords \cup {Absent}, lon \in PlainCoords \cup {Absent},
          alt \in Altitudes, dir \in Directions :
          x = Exif(GpsInfo(lat, Absent, lon, Str("W"), alt, dir, FALSE))

Pending == [t |-> "pending"]

-----------------------------------------------------------------------------
(* The state before "Generate KMZ" is pressed. *)

NoArchive == [t |-> "none"]
EmptyFs   == [p \in {} |-> None]
EmptyKml  == [points |-> <<>>, overlays |-> <<>>]

Idle ==
    /\ pc = "idle"
    /\ uploaded = EmptyFs
    /\ outName = <<>>
    /\ fs = EmptyFs
    /\ image_paths = <<>>
    /\ idx = 1
    /\ has_data = FALSE
    /\ kml = EmptyKml
    /\ kmz_images = <<>>
    /\ archive = NoArchive
    /\ result = "none"
    /\ extracted = <<>>
    /\ served = NoArchive

-----------------------------------------------------------------------------
(* SpecGps: get_gps_metadata on one tag block. *)

InitGps ==
    /\ Idle
    /\ GpsInputs(gpsTags)
    /\ gpsResult = Pending

ExtractGps ==
    /\ gpsResult = Pending
    /\ gpsResult' = get_gps_metadata(gpsTags)
    /\ UNCHANGED <<batchVars, gpsTags>>

NextGps == ExtractGps

SpecGps == InitGps /\ [][NextGps]_vars

-----------------------------------------------------------------------------
(* Spec: the "Generate KMZ" handler. *)

\* tempfile.TemporaryDirectory(): a fresh directory whose name holds no dot
TmpDir == <<"/","t","m","p">>

FanPath    == Join(TmpDir, FanPng)
DocKmlPath == Join(TmpDir, DocKml)

\* a file's content: what its pixels are, its EXIF block, annotated or not
File(pix, exif, ann) == [pix |-> pix, exif |-> exif, ann |-> ann]

\* the marker as download_fan_image leaves it: fetched, rotated, re-saved
Marker == File(<<"marker">>, NoExif, FALSE)

\* the response body as written by lines 15-16, when PIL cannot open it
RawBody == File(<<"body">>, Unreadable, FALSE)

\* the names an uploaded file may have (st.file_uploader: jpg, jpeg, png)
NameUniverse ==
    {<<"a">> \o DotJpg,
     <<"a">> \o AnnotatedJpg,
     <<"a">> \o DotJpg \o DotJpg,
     <<"b">> \o DotPng,
     <<"c",".","J","P","G">>,
     <<"d">> \o DotJpeg,
     FanPng}

Pittsburgh == SeqOf(<<Num(40), Num(26), Num(46)>>)
West79     == SeqOf(<<Num(79), Num(58), Num(56)>>)
Zero       == SeqOf(<<Num(0), Num(0), Num(0)>>)
Malformed  == SeqOf(<<Num(0), Bad, Num(0)>>)

\* the EXIF blocks an uploaded file may carry: none; the coordinate of the
\* specification's example; 0/0/0 South; a malformed latitude with no reference and
\* with reference S; a direction that is no number
ExifUniverse ==
    {NoExif,
     Exif(GpsInfo(Pittsburgh, Str("N"), West79, Str("W"), Tuple(5, 1),
                  Tuple(90, 1), FALSE)),
     Exif(GpsInfo(Zero, Str("S"), Pittsburgh, Absent, Absent, Absent, FALSE)),
     Exif(GpsInfo(Malformed, Absent, West79, Str("W"), Absent, Absent, FALSE)),
     Exif(GpsInfo(Malformed, Str("S"), West79, Str("W"), Absent, Absent, FALSE)),
     Exif(GpsInfo(Pittsburgh, Str("N"), West79, Str("E"), Absent,
                  Str("north"), FALSE))}

\* output_kmz_name: the default, or the field left empty
OutNames == {<<"o","u","t","p","u","t",".","k","m","z">>, <<>>}

Init ==
    /\ pc = "idle"
    /\ \E names \in SUBSET NameUniverse :
          /\ Cardinality(names) <= MaxUploads
          /\ \E exifOf \in [names -> ExifUniverse] :
                uploaded = [n \in names |-> File(n, exifOf[n], FALSE)]
    /\ outName \in OutNames
    /\ fs = EmptyFs
    /\ image_paths = <<>>
    /\ idx = 1
    /\ has_data = FALSE
    /\ kml = EmptyKml
    /\ kmz_images = <<>>
    /\ archive = NoArchive
    /\ result = "none"
    /\ extracted = <<>>
    /\ served = NoArchive
    /\ gpsTags = NoExif
    /\ gpsResult = Pending

\* open(path, "wb").write(...) / image.save(path)
WriteFile(files, path, content) ==
    [p \in DOMAIN files \cup {path} |-> IF p = path THEN content ELSE files[p]]

RemoveFile(files, path) == [p \in DOMAIN files \ {path} |-> files[p]]

\* lines 228-230
Press ==
    /\ pc = "idle"
    /\ IF DOMAIN uploaded = {}
       THEN /\ result' = "no_upload"
            /\ pc' = "done"
       ELSE /\ result' = result
            /\ pc' = "download"
    /\ UNCHANGED <<uploaded, outName, fs, image_paths, idx, has_data, kml,
                   kmz_images, archive, extracted, served, gpsTags, gpsResult>>

\* lines 237-238 and download_fan_image (11-23)
Download ==
    /\ pc = "download"
    /\ \/ /\ fs' = WriteFile(fs, FanPath, Marker)      \* status 200, an image
          /\ pc' = "upload"
          /\ result' = result
       \/ /\ fs' = WriteFile(fs, FanPath, RawBody)     \* status 200, no image:
          /\ pc' = "cleanup"                           \* lines 15-16 ran,
          /\ result' = "marker_error"                  \* Image.open raises
       \/ /\ fs' = fs                                   \* any other status
          /\ pc' = "cleanup"
          /\ result' = "download_failed"
    /\ UNCHANGED <<uploaded, outName, image_paths, idx, has_data, kml,
                   kmz_images, archive, extracted, served, gpsTags, gpsResult>>

\* lines 240-243: the loop over uploaded_files
RECURSIVE WriteAll(_, _, _)
WriteAll(files, todo, src) ==
    IF todo = {} THEN files
    ELSE LET n == CHOOSE x \in todo : TRUE
         IN  WriteAll(WriteFile(files, Join(TmpDir, n), src[n]), todo \ {n}, src)

WriteUploads ==
    /\ pc = "upload"
    /\ fs' = WriteAll(fs, DOMAIN uploaded, uploaded)
    /\ pc' = "listdir"
    /\ UNCHANGED <<uploaded, outName, image_paths, idx, has_data, kml,
                   kmz_images, archive, result, extracted, served, gpsTags,
                   gpsResult>>

\* line 147: f.lower().endswith(('.jpg', '.jpeg', '.png'))
IsCandidate(f) ==
    \/ EndsWith(Lower(f), DotJpg)
    \/ EndsWith(Lower(f), DotJpeg)
    \/ EndsWith(Lower(f), DotPng)

Candidates(files, folder) ==
    {p \in DOMAIN files :
        p = Join(folder, Basename(p)) /\ IsCandidate(Basename(p))}

Orderings(S) ==
    {q \in [1..Cardinality(S) -> S] :
        \A i, j \in 1..Cardinality(S) : q[i] = q[j] => i = j}

\* lines 146-149; os.listdir returns the entries in arbitrary order
ListDir ==
    /\ pc = "listdir"
    /\ image_paths' \in Orderings(Candidates(fs, TmpDir))
    /\ idx' = 1
    /\ kml' = EmptyKml
    /\ kmz_images' = <<>>
    /\ has_data' = FALSE
    /\ pc' = "loop"
    /\ UNCHANGED <<uploaded, outName, fs, archive, result, extracted, served,
                   gpsTags, gpsResult>>

\* float(x) of line 157
ToFloat(v) ==
    CASE v.t = "float" -> v
      [] v.t = "num"   -> Rat(v.n, 1)
      [] OTHER         -> Raised                     \* ValueError

\* x * 111319.9 of lines 158-159, kept as a product (the model's integers
\* are 32 bits wide): TypeError on None
Times1113199(v) ==
    CASE v.t = "float" -> [t |-> "product", of |-> v, by |-> Rat(1113199, 10)]
      [] v.t = "nan"   -> NaN
      [] OTHER         -> Raised

\* x + k / 100000 of lines 184-187, kept as a sum
PlusEps(v, k) ==
    IF v.t = "float" THEN [t |-> "sum", of |-> v, plus |-> Rat(k, 100000)]
    ELSE v

\* orientation - 90 of line 188
Minus90(v) == IF v.t = "float" THEN Rat(v.num - 90 * v.den, v.den) ELSE v

AnnotatedPath_inplace(image_path) == image_path

\* line 139
AnnotatedPath(image_path) == Replace(image_path, DotJpg, AnnotatedJpg)

\* annotate_image (105-141): draws on the opened image and saves it under the
\* annotated path; PIL's save writes no EXIF block unless given one.
annotate_image(files, image_path) ==
    WriteFile(files, AnnotatedPath(image_path),
              File(files[image_path].pix, NoExif, TRUE))

\* line 176: the img src of the placemark's description
ImgSrc(image_path, annotated_image_path) == Basename(annotated_image_path)

EntryName_original(image_path, annotated_image_path) == Basename(image_path)

\* line 191: the archive entry name of the photo
EntryName(image_path, annotated_image_path) == Basename(annotated_image_path)

OverlayPrefix == <<"O","v","e","r","l","a","y"," ","-"," ">>

\* lines 173-178
Placemark(image_path, annotated_image_path, lat, lon, orientation) ==
    [name |-> Basename(image_path),
     coords |-> <<lon, lat>>,
     orientation |-> orientation,
     src |-> ImgSrc(image_path, annotated_image_path)]

\* lines 181-188
GroundOverlay(image_path, lat, lon, orientation) ==
    [name |-> OverlayPrefix \o Basename(image_path),
     href |-> FanPng,
     north |-> PlusEps(lat, 5),
     south |-> PlusEps(lat, -5),
     east |-> PlusEps(lon, 5),
     west |-> PlusEps(lon, -5),
     rotation |-> Minus90(orientation)]

\* lines 151-191: one iteration of the for loop
ProcessPhoto ==
    /\ pc = "loop"
    /\ idx <= Len(image_paths)
    /\ LET image_path == image_paths[idx]
           metadata == get_gps_metadata(fs[image_path].exif)
       IN  /\ extracted' = Append(extracted, [path |-> image_path,
                                              exif |-> fs[image_path].exif,
                                              metadata |-> metadata])
           /\ IF metadata = None
              THEN /\ idx' = idx + 1
                   /\ UNCHANGED <<pc, fs, has_data, kml, kmz_images, result>>
              ELSE LET lat == metadata.latitude
                       lon == metadata.longitude
                       orientation == ToFloat(metadata.orientation)
                       easting == Times1113199(lon)
                       northing == Times1113199(lat)
                       annotated_image_path == AnnotatedPath(image_path)
                   IN  /\ has_data' = TRUE
                       /\ IF orientation = Raised
                          THEN /\ result' = "value_error"
                               /\ pc' = "cleanup"
                               /\ UNCHANGED <<idx, fs, kml, kmz_images>>
                          ELSE IF easting = Raised \/ northing = Raised
                          THEN /\ result' = "type_error"
                               /\ pc' = "cleanup"
                               /\ UNCHANGED <<idx, fs, kml, kmz_images>>
                          ELSE /\ fs' = annotate_image(fs, image_path)
                               /\ kml' =
                                    [points |-> Append(kml.points,
                                        Placemark(image_path,
                                                  annotated_image_path,
                                                  lat, lon, orientation)),
                                     overlays |-> Append(kml.overlays,
                                        GroundOverlay(image_path, lat, lon,
                                                      orientation))]
                               /\ kmz_images' = Append(kmz_images,
                                    <<EntryName(image_path,
                                                annotated_image_path),
                                      annotated_image_path>>)
                               /\ idx' = idx + 1
                               /\ UNCHANGED <<pc, result>>
    /\ UNCHANGED <<uploaded, outName, image_paths, archive, served, gpsTags,
                   gpsResult>>

GateRaises_never(flag) == FALSE

\* line 193
GateRaises(flag) == ~flag

\* lines 193-194, once the loop is over
Gate ==
    /\ pc = "loop"
    /\ idx > Len(image_paths)
    /\ IF GateRaises(has_data)
       THEN /\ result' = "no_gps"
            /\ pc' = "cleanup"
       ELSE /\ result' = result
            /\ pc' = "rename"
    /\ UNCHANGED <<uploaded, outName, fs, image_paths, idx, has_data, kml,
                   kmz_images, archive, extracted, served, gpsTags, gpsResult>>

\* os.rename(src, dst): nothing happens when both name the same file
Rename(files, src, dst) ==
    IF src = dst THEN files
    ELSE RemoveFile(WriteFile(files, dst, files[src]), src)

\* lines 197-198
RenameFan ==
    /\ pc = "rename"
    /\ fs' = Rename(fs, FanPath, Join(TmpDir, FanPng))
    /\ pc' = "savekml"
    /\ UNCHANGED <<uploaded, outName, image_paths, idx, has_data, kml,
                   kmz_images, archive, result, extracted, served, gpsTags,
                   gpsResult>>

\* kml.save(kml_file): the serialized document
KmlFile(doc) ==
    [pix |-> <<"kml">>, exif |-> Unreadable, ann |-> FALSE, doc |-> doc]

\* lines 201-202
SaveKml ==
    /\ pc = "savekml"
    /\ fs' = WriteFile(fs, DocKmlPath, KmlFile(kml))
    /\ pc' = "zip"
    /\ UNCHANGED <<uploaded, outName, image_paths, idx, has_data, kml,
                   kmz_images, archive, result, extracted, served, gpsTags,
                   gpsResult>>

Entry(name, content) == [name |-> name, content |-> content]

\* lines 206-209: kmz.write(path, name) for doc.kml, each image, Fan.png
ZipEntries(files, images) ==
    <<Entry(DocKml, files[DocKmlPath])>>
      \o [i \in 1..Len(images) |-> Entry(images[i][1], files[images[i][2]])]
      \o <<Entry(FanPng, files[Join(TmpDir, FanPng)])>>

\* lines 205-209.  output_kmz is os.path.join(tmp_dir, output_kmz_name): with
\* the name left empty it is the directory itself and ZipFile raises.
WriteZip ==
    /\ pc = "zip"
    /\ \/ /\ outName = <<>>
          /\ result' = "zip_error"
          /\ pc' = "cleanup"
          /\ archive' = archive
       \/ /\ outName # <<>>
          /\ archive' = [t |-> "zip", entries |-> ZipEntries(fs, kmz_images)]
          /\ pc' = "removekml"
          /\ result' = result
    /\ UNCHANGED <<uploaded, outName, fs, image_paths, idx, has_data, kml,
                   kmz_images, extracted, served, gpsTags, gpsResult>>

\* line 211
RemoveKml ==
    /\ pc = "removekml"
    /\ fs' = RemoveFile(fs, DocKmlPath)
    /\ pc' = "serve"
    /\ UNCHANGED <<uploaded, outName, image_paths, idx, has_data, kml,
                   kmz_images, archive, result, extracted, served, gpsTags,
                   gpsResult>>

\* lines 248-254
Serve ==
    /\ pc = "serve"
    /\ served' = archive
    /\ pc' = "cleanup"
    /\ UNCHANGED <<uploaded, outName, fs, image_paths, idx, has_data, kml,
                   kmz_images, archive, result, extracted, gpsTags, gpsResult>>

\* the end of "with tempfile.TemporaryDirectory()" and lines 255-259
Cleanup ==
    /\ pc = "cleanup"
    /\ fs' = EmptyFs
    /\ archive' = NoArchive
    /\ result' = IF result = "none" THEN "ok" ELSE result
    /\ pc' = "done"
    /\ UNCHANGED <<uploaded, outName, image_paths, idx, has_data, kml,
                   kmz_images, extracted, served, gpsTags, gpsResult>>

Next ==
    \/ Press
    \/ Download
    \/ WriteUploads
    \/ ListDir
    \/ ProcessPhoto
    \/ Gate
    \/ RenameFan
    \/ SaveKml
    \/ WriteZip
    \/ RemoveKml
    \/ Serve
    \/ Cleanup

Spec == Init /\ [][Next]_vars

-----------------------------------------------------------------------------
(* Properties. *)

\* create_kmz_with_fan_overlay has gone past its for loop
PastLoop ==
    /\ pc \in {"rename", "savekml", "zip", "removekml", "serve", "cleanup",
               "done"}
    /\ result \notin {"download_failed", "marker_error", "no_upload"}

\* the calls of get_gps_metadata that returned a record
Yielded == {i \in 1..Len(extracted) : extracted[i].metadata # None}

\* C1: when no candidate photo yields a location record,
\* create_kmz_with_fan_overlay raises the "No valid GPS metadata" ValueError
\* and the archive is never opened, written or served.
C1_NoRecordNoArchive ==
    (PastLoop /\ Yielded = {}) =>
        /\ result = "no_gps"
        /\ pc \in {"cleanup", "done"}
        /\ archive = NoArchive
        /\ served = NoArchive

C1_Witness ==
    /\ pc = "done"
    /\ result = "no_gps"
    /\ Len(extracted) >= 3
    /\ Yielded = {}

\* a coordinate tag on which convert_to_degrees fails
ConversionFails(coord) == coord # Absent /\ convert_to_degrees(coord) = None

\* C2: a photo on whose GPSLatitude or GPSLongitude convert_to_degrees fails,
\* whatever its hemisphere references, gets no record from get_gps_metadata
\* and does not abort the batch.
C2_MalformedCoordinateSkipped ==
    \A i \in 1..Len(extracted) :
        LET x == extracted[i].exif
        IN  (/\ x.t = "exif"
             /\ x.gps.GPSLatitude # Absent
             /\ x.gps.GPSLongitude # Absent
             /\ \/ ConversionFails(x.gps.GPSLatitude)
                \/ ConversionFails(x.gps.GPSLongitude))
            => /\ extracted[i].metadata = None
               /\ result # "type_error"

\* the document stored in the archive under doc.kml
ArchivedDoc == archive.entries[1].content.doc

EntryNames == {archive.entries[i].name : i \in 1..Len(archive.entries)}

\* C3: every name the archived document refers to (each placemark's img src,
\* each ground overlay's icon href) is the name of an entry of the archive.
C3_ReferenceIntegrity ==
    archive.t = "zip" =>
        /\ \A i \in 1..Len(ArchivedDoc.points) :
              ArchivedDoc.points[i].src \in EntryNames
        /\ \A i \in 1..Len(ArchivedDoc.overlays) :
              ArchivedDoc.overlays[i].href \in EntryNames

C3_Witness ==
    /\ archive.t = "zip"
    /\ Len(ArchivedDoc.points) >= 2
    /\ \E i \in 1..Len(ArchivedDoc.points) :
          ArchivedDoc.points[i].src # ArchivedDoc.points[i].name

\* C4: the names written into the archive are pairwise distinct.
C4_EntryNamesDistinct ==
    archive.t = "zip" =>
        \A i, j \in 1..Len(archive.entries) :
            archive.entries[i].name = archive.entries[j].name => i = j

\* C5: when k >= 1 candidate photos yield a location record, the run succeeds
\* with exactly k placemarks, k ground overlays and k image entries beside
\* doc.kml and Fan.png (the output name being a usable file name).
C5_ContributionCount ==
    (/\ pc \in {"serve", "cleanup", "done"}
     /\ result \notin {"download_failed", "marker_error", "no_upload"}
     /\ outName # <<>>
     /\ Yielded # {})
    => LET k == Cardinality(Yielded)
           out == IF pc = "serve" THEN archive ELSE served
       IN  /\ result \in {"none", "ok"}
           /\ Len(kml.points) = k
           /\ Len(kml.overlays) = k
           /\ out.t = "zip"
           /\ Len(out.entries) = k + 2

\* C6, as claimed: the archive entry of every geotagged photo, and the img src
\* of its placemark, are named the photo's original base filename.
C6_EntryIsOriginalName ==
    archive.t = "zip" =>
        \A i \in 1..Len(ArchivedDoc.points) :
            /\ archive.entries[i + 1].name = ArchivedDoc.points[i].name
            /\ ArchivedDoc.points[i].src = ArchivedDoc.points[i].name

\* C6, amended: the entry and the img src carry one name, the original base
\* filename with every ".jpg" replaced by "_annotated.jpg"; it is the original
\* name exactly when that name holds no lower-case ".jpg".
C6_EntryIsAnnotatedName ==
    archive.t = "zip" =>
        \A i \in 1..Len(ArchivedDoc.points) :
            LET orig == ArchivedDoc.points[i].name
                e    == archive.entries[i + 1].name
            IN  /\ e = ArchivedDoc.points[i].src
                /\ IF Contains(orig, DotJpg)
                   THEN e = Replace(orig, DotJpg, AnnotatedJpg) /\ e # orig
                   ELSE e = orig

C6_Witness ==
    /\ archive.t = "zip"
    /\ \E i, j \in 1..Len(ArchivedDoc.points) :
          /\ Contains(ArchivedDoc.points[i].name, DotJpg)
          /\ archive.entries[i + 1].name # ArchivedDoc.points[i].name
          /\ ~Contains(ArchivedDoc.points[j].name, DotJpg)
          /\ archive.entries[j + 1].name = ArchivedDoc.points[j].name

\* C7: once doc.kml has been saved, it is gone from the folder when
\* create_kmz_with_fan_overlay returns or raises.
C7_DocKmlCleanedUp ==
    (pc = "serve" \/ (pc = "cleanup" /\ result = "zip_error"))
        => DocKmlPath \notin DOMAIN fs

\* C8: once download_fan_image has stored the marker, Fan.png keeps the
\* fetched marker's content, and the archive's Fan.png entries hold it.
C8_MarkerUnchanged ==
    /\ (/\ pc \notin {"idle", "download"}
        /\ result # "marker_error"
        /\ FanPath \in DOMAIN fs)
          => fs[FanPath] = Marker
    /\ archive.t = "zip" =>
          \A i \in 1..Len(archive.entries) :
              archive.entries[i].name = FanPng
                  => archive.entries[i].content = Marker

\* a DMS triple of non-negative numbers that convert_to_degrees accepts
ValidDms(coord) ==
    /\ coord.t = "seq"
    /\ Len(coord.v) = 3
    /\ \A i \in 1..3 : \/ coord.v[i].t \in {"num", "frac"}
                       \/ coord.v[i].t = "ifd" /\ coord.v[i].d > 0

ZeroDms(coord) == \A i \in 1..3 : coord.v[i].n = 0

IsNegative(v) == v.t = "float" /\ v.num < 0
IsZero(v)     == v.t = "float" /\ v.num = 0
NonNegative(v) == v.t = "float" /\ v.num >= 0

GpsReturned ==
    /\ gpsResult.t = "meta"
    /\ ValidDms(gpsTags.gps.GPSLatitude)
    /\ ValidDms(gpsTags.gps.GPSLongitude)

\* C9, as claimed: for valid DMS triples the latitude is negative under
\* reference S and non-negative under N or none, the longitude negative
\* under W and non-negative under E or none.
C9_HemisphereSign ==
    GpsReturned =>
        /\ IF gpsTags.gps.GPSLatitudeRef = Str("S")
           THEN IsNegative(gpsResult.latitude)
           ELSE NonNegative(gpsResult.latitude)
        /\ IF gpsTags.gps.GPSLongitudeRef = Str("W")
           THEN IsNegative(gpsResult.longitude)
           ELSE NonNegative(gpsResult.longitude)

\* C9, amended: under S (W) the latitude (longitude) is negative for a triple
\* that is not 0/0/0 and zero for 0/0/0; under N (E) or no reference it is
\* non-negative.
C9_HemisphereSignNonZero ==
    GpsReturned =>
        /\ IF gpsTags.gps.GPSLatitudeRef = Str("S")
           THEN IF ZeroDms(gpsTags.gps.GPSLatitude)
                THEN IsZero(gpsResult.latitude)
                ELSE IsNegative(gpsResult.latitude)
           ELSE NonNegative(gpsResult.latitude)
        /\ IF gpsTags.gps.GPSLongitudeRef = Str("W")
           THEN IF ZeroDms(gpsTags.gps.GPSLongitude)
                THEN IsZero(gpsResult.longitude)
                ELSE IsNegative(gpsResult.longitude)
           ELSE NonNegative(gpsResult.longitude)

C9_Witness ==
    /\ GpsReturned
    /\ gpsTags.gps.GPSLatitudeRef = Str("S")
    /\ gpsTags.gps.GPSLatitude.v[3] = Frac(1, 2)
    /\ ~ZeroDms(gpsTags.gps.GPSLatitude)
    /\ IsNegative(gpsResult.latitude)
    /\ IsNegative(gpsResult.longitude)

\* C10: processing one photo leaves every other candidate file unchanged.
C10_OtherCandidatesUnchanged ==
    [][(pc = "loop" /\ idx <= Len(image_paths)) =>
          \A j \in 1..Len(image_paths) :
              j # idx => /\ image_paths[j] \in DOMAIN fs'
                         /\ fs'[image_paths[j]] = fs[image_paths[j]]]_vars

====
